---- MODULE Spec2Model ----
(***************************************************************************)
(* Model of the logger service in src/python/flask/main.py: the process-   *)
(* wide logger behind log_levels, the periodic_logger thread, and the two  *)
(* request handlers log_message_route and crash_route, run by a threaded   *)
(* server next to the periodic thread.                                     *)
(*                                                                         *)
(* Strings that the code lower-cases or upper-cases (level, handle,        *)
(* PERIODIC_LOG_LEVEL) are sequences of one-character strings, so that     *)
(* str.lower() and str.upper() are computed character by character.        *)
(* Messages are passed through untouched by the code and are atoms.        *)
(***************************************************************************)
EXTENDS Integers, Sequences, FiniteSets, TLC

(* ------------------------------ bounds -------------------------------- *)

\* Largest <int:count> path segment tried.
MaxCount == 2
\* Largest PERIODIC_LOG_INTERVAL tried, in clock ticks.
MaxInterval == 1
\* Number of periodic lines the sink keeps track of.
MaxPeriodic == 1

\* Two requests are served in one behaviour, concurrently or one after the
\* other; request 1 is the first to arrive.
Reqs == {1, 2}

(* --------------------------- str.lower / upper ------------------------ *)

ToLowerTable ==
  [A |-> "a", B |-> "b", C |-> "c", D |-> "d", E |-> "e", F |-> "f", G |-> "g",
   H |-> "h", I |-> "i", J |-> "j", K |-> "k", L |-> "l", M |-> "m", N |-> "n",
   O |-> "o", P |-> "p", Q |-> "q", R |-> "r", S |-> "s", T |-> "t", U |-> "u",
   V |-> "v", W |-> "w", X |-> "x", Y |-> "y", Z |-> "z"]

ToUpperTable ==
  [a |-> "A", b |-> "B", c |-> "C", d |-> "D", e |-> "E", f |-> "F", g |-> "G",
   h |-> "H", i |-> "I", j |-> "J", k |-> "K", l |-> "L", m |-> "M", n |-> "N",
   o |-> "O", p |-> "P", q |-> "Q", r |-> "R", s |-> "S", t |-> "T", u |-> "U",
   v |-> "V", w |-> "W", x |-> "X", y |-> "Y", z |-> "Z"]

\* str.lower()
Lower(s) ==
  [j \in 1..Len(s) |-> IF s[j] \in DOMAIN ToLowerTable THEN ToLowerTable[s[j]] ELSE s[j]]

\* str.upper()
Upper(s) ==
  [j \in 1..Len(s) |-> IF s[j] \in DOMAIN ToUpperTable THEN ToUpperTable[s[j]] ELSE s[j]]

(* ------------------------------ the logger ---------------------------- *)

\* The keys of log_levels, in the dictionary's (insertion) order.
LogLevelKeys ==
  << <<"d","e","b","u","g">>,
     <<"i","n","f","o">>,
     <<"w","a","r","n","i","n","g">>,
     <<"e","r","r","o","r">>,
     <<"c","r","i","t","i","c","a","l">> >>

Methods == {"debug", "info", "warning", "error", "critical"}

\* log_levels: key -> the logger method bound to it.
log_levels ==
  [key \in {LogLevelKeys[j] : j \in 1..Len(LogLevelKeys)} |->
     CASE key = <<"d","e","b","u","g">> -> "debug"
       [] key = <<"i","n","f","o">> -> "info"
       [] key = <<"w","a","r","n","i","n","g">> -> "warning"
       [] key = <<"e","r","r","o","r">> -> "error"
       [] key = <<"c","r","i","t","i","c","a","l">> -> "critical"]

\* The numeric level of the record a logger method creates.
LevelNo(method) ==
  CASE method = "debug" -> 10
    [] method = "info" -> 20
    [] method = "warning" -> 30
    [] method = "error" -> 40
    [] method = "critical" -> 50

\* %(levelname)s of the record a logger method creates.
LevelName(method) ==
  CASE method = "debug" -> "DEBUG"
    [] method = "info" -> "INFO"
    [] method = "warning" -> "WARNING"
    [] method = "error" -> "ERROR"
    [] method = "critical" -> "CRITICAL"

\* logging.basicConfig(level=logging.INFO): the threshold of the root logger,
\* which is the effective level of `logger` (its own level is unset).
RootLevel == 20

\* Logger.isEnabledFor
IsEnabledFor(method) == LevelNo(method) >= RootLevel

\* The threads that call the logger.
ByMain == <<"main", 0>>
ByPeriodic == <<"periodic", 0>>
ByRequest(r) == <<"request", r>>

\* One formatted line of the output stream. `by` is not part of the line: it
\* records which thread's call wrote it.
Line(by, method, message) == [by |-> by, sev |-> LevelName(method), msg |-> message]

\* logger.<method>(message) called by thread `by` on stream s: the record is
\* dropped below the threshold, otherwise the handler writes one whole line
\* under its lock.
LoggerCall(s, by, method, message) ==
  IF IsEnabledFor(method) THEN Append(s, Line(by, method, message)) ELSE s

(* ------------------------------ inputs -------------------------------- *)

\* <level> path segments tried: every key, other casings, unknown names.
LevelInputs ==
  { <<"d","e","b","u","g">>, <<"i","n","f","o">>, <<"I","N","F","O">>,
    <<"w","a","r","n","i","n","g">>, <<"E","r","r","o","r">>,
    <<"c","r","i","t","i","c","a","l">>, <<"f","o","o">>, <<"F","o","o">> }

\* <message> path segments tried.
MessageInputs == {"m1", "m2"}

\* <handle> path segments tried; <<>> is the route without a handle.
HandleInputs ==
  { <<>>, <<"f","a","i","l">>, <<"F","A","L","S","E">>, <<"n">>,
    <<"t","r","u","e">>, <<"n","o","p","e">> }

\* settipy.set("PERIODIC_LOG_LEVEL", "INFO", ...)
DefaultPeriodicLevel == <<"I","N","F","O">>

\* PERIODIC_LOG_LEVEL values tried.
PeriodicLevelInputs ==
  { DefaultPeriodicLevel, <<"d","e","b","u","g">>, <<"E","r","r","o","r">>,
    <<"v","e","r","b","o","s","e">> }

\* PERIODIC_LOG_MESSAGE
Heartbeat == "System heartbeat"


\* The critical line of crash_route.
CrashMessage == "Application crash initiated due to division by zero!"

\* The line __main__ writes before the thread and the server start.
StartupMessage == "Project started with these vars"

(* ------------------------------- state -------------------------------- *)

VARIABLES
  settipy,    \* the parsed settings, fixed after settipy.parse()
  mainpc,     \* position of __main__: "startup", "thread", "run"
  ppc,        \* position of periodic_logger: "unstarted", "sleep", "call"
  slept,      \* ticks elapsed in the current time.sleep
  pfn,        \* periodic_logger's local log_function
  plast,      \* what the last periodic call did: "none", "written", "filtered"
  sink,       \* the lines written to the log stream, oldest first
  req         \* the request handlers, one record per request

vars == <<settipy, mainpc, ppc, slept, pfn, plast, sink, req>>

NoBody == [text |-> "none", count |-> 0, level |-> <<>>, message |-> "", valid |-> <<>>]

\* f"Invalid log level: {level}. Must be one of: {', '.join(log_levels.keys())}"
InvalidBody(level) ==
  [text |-> "Invalid log level", count |-> 0, level |-> level, message |-> "",
   valid |-> LogLevelKeys]

\* f"Emitted {count} logs at level {level.upper()} with message: {message}"
EmittedBody(count, level, message) ==
  [text |-> "Emitted", count |-> count, level |-> Upper(level), message |-> message,
   valid |-> <<>>]

\* "Crash endpoint triggered! Check server logs for division by zero error."
CaughtBody ==
  [text |-> "Crash endpoint triggered", count |-> 0, level |-> <<>>, message |-> "",
   valid |-> <<>>]

\* "This should not be returned as crash is intended"
NotReturnedBody ==
  [text |-> "This should not be returned", count |-> 0, level |-> <<>>, message |-> "",
   valid |-> <<>>]

IdleRequest ==
  [pc |-> "idle", kind |-> "none", level |-> <<>>, handle |-> <<>>, message |-> "",
   hasCount |-> FALSE, count |-> 0, i |-> 0, fn |-> "none",
   status |-> 0, body |-> NoBody, outcome |-> "none"]

\* The state when __main__ has parsed the settings.
InitWith(levels, intervals) ==
  /\ settipy \in [PERIODIC_LOG_LEVEL : levels,
                  PERIODIC_LOG_MESSAGE : {Heartbeat},
                  PERIODIC_LOG_INTERVAL : intervals]
  /\ mainpc = "startup"
  /\ ppc = "unstarted"
  /\ slept = 0
  /\ pfn = "none"
  /\ plast = "none"
  /\ sink = <<>>
  /\ req = [r \in Reqs |-> IdleRequest]

\* The settings left at their defaults; the default interval is one tick.
Init == InitWith({DefaultPeriodicLevel}, {1})

\* Every setting of the periodic logger tried.
InitLive == InitWith(PeriodicLevelInputs, 0..MaxInterval)

(* ------------------------------ __main__ ------------------------------ *)

\* logger.info(f"Project started with these vars: {startup_vars}")
MainLogStartup ==
  /\ mainpc = "startup"
  /\ sink' = LoggerCall(sink, ByMain, "info", StartupMessage)
  /\ mainpc' = "thread"
  /\ UNCHANGED <<settipy, ppc, slept, pfn, plast, req>>

\* threading.Thread(target=periodic_logger, daemon=True).start(), then app.run
MainStartThread ==
  /\ mainpc = "thread"
  /\ ppc = "unstarted"
  /\ ppc' = "sleep"
  /\ slept' = 0
  /\ mainpc' = "run"
  /\ UNCHANGED <<settipy, pfn, plast, sink, req>>

(* --------------------------- periodic_logger -------------------------- *)

\* One tick of the clock during time.sleep(PERIODIC_LOG_INTERVAL).
Tick ==
  /\ ppc = "sleep"
  /\ slept < settipy.PERIODIC_LOG_INTERVAL
  /\ slept' = slept + 1
  /\ UNCHANGED <<settipy, mainpc, ppc, pfn, plast, sink, req>>

\* PeriodicLogFunction with a fault: an unknown level falls back to error.
PeriodicLogFunctionWrongDefault ==
  IF Lower(settipy.PERIODIC_LOG_LEVEL) \in DOMAIN log_levels
    THEN log_levels[Lower(settipy.PERIODIC_LOG_LEVEL)]
    ELSE "error"

\* log_levels.get(settipy["PERIODIC_LOG_LEVEL"].lower(), logger.info)
PeriodicLogFunction ==
  IF Lower(settipy.PERIODIC_LOG_LEVEL) \in DOMAIN log_levels
    THEN log_levels[Lower(settipy.PERIODIC_LOG_LEVEL)]
    ELSE "info"

\* time.sleep returns once the interval has elapsed; log_function is looked up.
PeriodicWake ==
  /\ ppc = "sleep"
  /\ slept >= settipy.PERIODIC_LOG_INTERVAL
  /\ pfn' = PeriodicLogFunction
  /\ plast' = "none"
  /\ ppc' = "call"
  /\ UNCHANGED <<settipy, mainpc, slept, sink, req>>

PeriodicLines(s) == SelectSeq(s, LAMBDA l : l.by = ByPeriodic)

\* s without its oldest periodic line.
RECURSIVE DropOldestPeriodic(_)
DropOldestPeriodic(s) ==
  IF s = <<>> THEN s
  ELSE IF Head(s).by = ByPeriodic THEN Tail(s)
  ELSE <<Head(s)>> \o DropOldestPeriodic(Tail(s))

\* log_function(settipy["PERIODIC_LOG_MESSAGE"]), then back to the sleep.
\* The behaviour is cut off after MaxPeriodic periodic lines.
PeriodicCall ==
  /\ ppc = "call"
  /\ IsEnabledFor(pfn) => Len(PeriodicLines(sink)) < MaxPeriodic
  /\ sink' = LoggerCall(sink, ByPeriodic, pfn, settipy.PERIODIC_LOG_MESSAGE)
  /\ plast' = IF IsEnabledFor(pfn) THEN "written" ELSE "filtered"
  /\ ppc' = "sleep"
  /\ slept' = 0
  /\ UNCHANGED <<settipy, mainpc, pfn, req>>

\* The same step for behaviours that never end: of the periodic lines only
\* the newest MaxPeriodic are kept in `sink`.
PeriodicCallRotating ==
  /\ ppc = "call"
  /\ sink' = LoggerCall(
       IF IsEnabledFor(pfn) /\ Len(PeriodicLines(sink)) >= MaxPeriodic
         THEN DropOldestPeriodic(sink) ELSE sink,
       ByPeriodic, pfn, settipy.PERIODIC_LOG_MESSAGE)
  /\ plast' = IF IsEnabledFor(pfn) THEN "written" ELSE "filtered"
  /\ ppc' = "sleep"
  /\ slept' = 0
  /\ UNCHANGED <<settipy, mainpc, pfn, req>>

(* -------------------------- log_message_route ------------------------- *)

\* The server is accepting requests, and request r is the next to arrive.
Arrives(r) ==
  /\ mainpc = "run"
  /\ req[r].pc = "idle"
  /\ r > 1 => req[r - 1].pc # "idle"

\* The ways a path ends: without a count segment, or with one of `counts`.
CountSegments(counts) == {<<FALSE, 0>>} \cup {<<TRUE, c>> : c \in counts}

\* The count parameter: the <int:count> segment, or the default of the signature.
CountParameter(hasCount, c) == IF hasCount THEN c ELSE 1

\* InLogLevels with a fault: the level is looked up as given.
InLogLevelsCaseSensitive(level) == level \in DOMAIN log_levels

\* level.lower() in log_levels
InLogLevels(level) == Lower(level) \in DOMAIN log_levels

\* LogStartWith with a fault: the rejection is logged as an error.
LogStartLogsRejection(r, levels, messages, counts) ==
  /\ Arrives(r)
  /\ \E level \in levels, message \in messages, path \in CountSegments(counts) :
       /\ LET called == [req[r] EXCEPT !.kind = "log", !.level = level,
                                       !.message = message, !.hasCount = path[1],
                                       !.count = CountParameter(path[1], path[2])]
          IN IF ~InLogLevels(level)
               THEN /\ req' = [req EXCEPT ![r] =
                          [called EXCEPT !.pc = "done", !.status = 400,
                                         !.body = InvalidBody(level),
                                         !.outcome = "returned"]]
                    /\ sink' = LoggerCall(sink, ByRequest(r), "error", message)
               ELSE /\ req' = [req EXCEPT ![r] =
                          [called EXCEPT !.pc = "loop", !.i = 0,
                                         !.fn = log_levels[Lower(level)]]]
                    /\ sink' = sink
  /\ UNCHANGED <<settipy, mainpc, ppc, slept, pfn, plast>>

\* A request for /<level>/<message>/ or /<level>/<message>/<int:count> is
\* dispatched; an unknown level returns 400 at once, otherwise log_function
\* is bound and the loop begins.
LogStartWith(r, levels, messages, counts) ==
  /\ Arrives(r)
  /\ \E level \in levels, message \in messages, path \in CountSegments(counts) :
       /\ LET called == [req[r] EXCEPT !.kind = "log", !.level = level,
                                       !.message = message, !.hasCount = path[1],
                                       !.count = CountParameter(path[1], path[2])]
          IN req' = [req EXCEPT ![r] =
               IF ~InLogLevels(level)
                 THEN [called EXCEPT !.pc = "done", !.status = 400,
                                     !.body = InvalidBody(level),
                                     !.outcome = "returned"]
                 ELSE [called EXCEPT !.pc = "loop", !.i = 0,
                                     !.fn = log_levels[Lower(level)]]]
  /\ UNCHANGED <<settipy, mainpc, ppc, slept, pfn, plast, sink>>

\* The requests tried carry no count or a count of 1..MaxCount.
LogStart(r) == LogStartWith(r, LevelInputs, MessageInputs, 1..MaxCount)

\* One iteration of `for _ in range(count): log_function(message)`.
LogCall(r) ==
  /\ req[r].pc = "loop"
  /\ req[r].i < req[r].count
  /\ sink' = LoggerCall(sink, ByRequest(r), req[r].fn, req[r].message)
  /\ req' = [req EXCEPT ![r].i = @ + 1]
  /\ UNCHANGED <<settipy, mainpc, ppc, slept, pfn, plast>>

\* The loop is over: return the "Emitted ..." body (status 200 by default).
LogReturn(r) ==
  /\ req[r].pc = "loop"
  /\ req[r].i >= req[r].count
  /\ req' = [req EXCEPT ![r].pc = "done", ![r].status = 200,
                        ![r].body = EmittedBody(req[r].count, req[r].level, req[r].message),
                        ![r].outcome = "returned"]
  /\ UNCHANGED <<settipy, mainpc, ppc, slept, pfn, plast, sink>>

(* ----------------------------- crash_route ---------------------------- *)

\* 1 / 0 raises ZeroDivisionError.
RaisesZeroDivisionError(a, b) == b = 0

\* The handles for which the error is raised again.
PropagateSet ==
  { <<"f","a","l","s","e">>, <<"f">>, <<"n","o">>, <<"n">>, <<"f","a","i","l">> }

\* Propagates with a fault: the test is inverted.
PropagatesInverted(handle) == Lower(handle) \notin PropagateSet

\* Propagates with a fault: the handle is compared as given.
PropagatesCaseSensitive(handle) == handle \in PropagateSet

\* handle.lower() in {"false", "f", "no", "n", "fail"}
Propagates(handle) == Lower(handle) \in PropagateSet

\* A request for /crash/ or /crash/<handle> is dispatched and the try block
\* runs `result = 1 / 0`.
CrashStartWith(r, handles) ==
  /\ Arrives(r)
  /\ \E handle \in handles :
       LET called == [req[r] EXCEPT !.kind = "crash", !.handle = handle]
       IN req' = [req EXCEPT ![r] =
            IF RaisesZeroDivisionError(1, 0)
              THEN [called EXCEPT !.pc = "except"]
              ELSE [called EXCEPT !.pc = "done", !.status = 200,
                                  !.body = NotReturnedBody, !.outcome = "returned"]]
  /\ UNCHANGED <<settipy, mainpc, ppc, slept, pfn, plast, sink>>

CrashStart(r) == CrashStartWith(r, HandleInputs)

\* except ZeroDivisionError: logger.critical(...)
CrashLog(r) ==
  /\ req[r].pc = "except"
  /\ sink' = LoggerCall(sink, ByRequest(r), "critical", CrashMessage)
  /\ req' = [req EXCEPT ![r].pc = "logged"]
  /\ UNCHANGED <<settipy, mainpc, ppc, slept, pfn, plast>>

\* CrashFinish with a fault: the error raised again takes the process down,
\* the periodic thread and the other handlers with it.
CrashFinishKillsProcess(r) ==
  /\ req[r].pc = "logged"
  /\ IF Propagates(req[r].handle)
       THEN /\ req' = [q \in Reqs |->
                 IF q = r \/ req[q].pc \notin {"idle", "done"}
                   THEN [req[q] EXCEPT !.pc = "done", !.outcome = "raised"]
                   ELSE req[q]]
            /\ ppc' = "dead"
            /\ mainpc' = "dead"
       ELSE /\ req' = [req EXCEPT ![r].pc = "done", ![r].status = 500,
                                  ![r].body = CaughtBody, ![r].outcome = "returned"]
            /\ UNCHANGED <<ppc, mainpc>>
  /\ UNCHANGED <<settipy, slept, pfn, plast, sink>>

\* `raise` when the handle asks for it: the error leaves the handler and no
\* response is returned by it; otherwise return the fixed body with 500.
CrashFinish(r) ==
  /\ req[r].pc = "logged"
  /\ req' = [req EXCEPT ![r] =
       IF Propagates(req[r].handle)
         THEN [@ EXCEPT !.pc = "done", !.outcome = "raised"]
         ELSE [@ EXCEPT !.pc = "done", !.status = 500, !.body = CaughtBody,
                        !.outcome = "returned"]]
  /\ UNCHANGED <<settipy, mainpc, ppc, slept, pfn, plast, sink>>

(* --------------------------- specifications --------------------------- *)

Handlers ==
  \E r \in Reqs :
    \/ LogStart(r)
    \/ LogCall(r)
    \/ LogReturn(r)
    \/ CrashStart(r)
    \/ CrashLog(r)
    \/ CrashFinish(r)

Next ==
  \/ MainLogStartup
  \/ MainStartThread
  \/ Tick
  \/ PeriodicWake
  \/ PeriodicCall
  \/ Handlers

Spec == Init /\ [][Next]_vars

\* The inputs of the never-ending behaviours: a filtered, a written and a
\* rejected level; a raised and a caught crash.
LiveLevelInputs == { <<"d","e","b","u","g">>, <<"I","N","F","O">>, <<"F","o","o">> }
LiveMessageInputs == {"m1"}
LiveCountInputs == {2}
LiveHandleInputs == { <<>>, <<"F","A","L","S","E">> }

HandlersLive ==
  \E r \in Reqs :
    \/ LogStartWith(r, LiveLevelInputs, LiveMessageInputs, LiveCountInputs)
    \/ LogCall(r)
    \/ LogReturn(r)
    \/ CrashStartWith(r, LiveHandleInputs)
    \/ CrashLog(r)
    \/ CrashFinish(r)

NextLive ==
  \/ MainLogStartup
  \/ MainStartThread
  \/ Tick
  \/ PeriodicWake
  \/ PeriodicCallRotating
  \/ HandlersLive

\* Every thread that can take a step is scheduled, and the clock advances.
Fairness ==
  /\ WF_vars(MainLogStartup)
  /\ WF_vars(MainStartThread)
  /\ WF_vars(Tick)
  /\ WF_vars(PeriodicWake)
  /\ WF_vars(PeriodicCallRotating)
  /\ \A r \in Reqs : WF_vars(LogCall(r) \/ LogReturn(r) \/ CrashLog(r) \/ CrashFinish(r))

LiveSpec == InitLive /\ [][NextLive]_vars /\ Fairness

(* ------------------------------ properties ---------------------------- *)

\* The lines request r's calls put in the sink, as (severity, message) pairs.
LinesBy(r) ==
  LET own == SelectSeq(sink, LAMBDA l : l.by = ByRequest(r))
  IN [j \in 1..Len(own) |-> <<own[j].sev, own[j].msg>>]

\* n lines of one severity and message.
Repeated(n, sev, msg) == [j \in 1..n |-> <<sev, msg>>]

Keys == {LogLevelKeys[j] : j \in 1..Len(LogLevelKeys)}

\* The severity a level string names, for a string that names one.
SeverityNamed(level) ==
  CASE Lower(level) = <<"d","e","b","u","g">> -> "DEBUG"
    [] Lower(level) = <<"i","n","f","o">> -> "INFO"
    [] Lower(level) = <<"w","a","r","n","i","n","g">> -> "WARNING"
    [] Lower(level) = <<"e","r","r","o","r">> -> "ERROR"
    [] Lower(level) = <<"c","r","i","t","i","c","a","l">> -> "CRITICAL"

LogDone(r) == req[r].kind = "log" /\ req[r].pc = "done"
CrashDone(r) == req[r].kind = "crash" /\ req[r].pc = "done"

\* C1: a request /{S}/{msg}/{N} with a valid severity S and N >= 1 returns
\* 200 and the sink holds exactly N lines of that request, all at severity S
\* with message msg.
C1_ExactlyNLines ==
  \A r \in Reqs :
    (LogDone(r) /\ Lower(req[r].level) \in Keys /\ req[r].count >= 1)
      => /\ req[r].status = 200
         /\ LinesBy(r) = Repeated(req[r].count, SeverityNamed(req[r].level), req[r].message)

\* C2: a log request whose lower-cased level is no key of log_levels is
\* answered 400 and none of the lines in the sink is its own.
C2_InvalidLevelRejected ==
  \A r \in Reqs :
    (req[r].kind = "log" /\ Lower(req[r].level) \notin Keys)
      => /\ req[r].pc = "done"
         /\ req[r].outcome = "returned"
         /\ req[r].status = 400
         /\ req[r].body.text = "Invalid log level"
         /\ LinesBy(r) = <<>>

C2_Witness ==
  \E r \in Reqs :
    /\ req[r].kind = "log"
    /\ req[r].level = <<"F","o","o">>
    /\ req[r].status = 400
    /\ \E q \in Reqs : q # r /\ LinesBy(q) # <<>>

\* C3: a crash request whose lower-cased handle is outside the propagate set
\* (the missing handle included) ends with status 500, the fixed body and
\* exactly one critical line of its own; no crash request ever returns the
\* "should not be returned" response.
C3_CaughtCrash ==
  \A r \in Reqs :
    /\ (CrashDone(r) /\ Lower(req[r].handle) \notin PropagateSet)
         => /\ req[r].outcome = "returned"
            /\ req[r].status = 500
            /\ req[r].body = CaughtBody
            /\ LinesBy(r) = <<(<<"CRITICAL", CrashMessage>>)>>
    /\ req[r].kind = "crash" => req[r].status # 200 /\ req[r].body # NotReturnedBody

C3_Witness ==
  /\ \E r \in Reqs : CrashDone(r) /\ req[r].handle = <<>> /\ req[r].status = 500
  /\ \E r \in Reqs : CrashDone(r) /\ req[r].handle = <<"n","o","p","e">> /\ req[r].status = 500

\* C4: a crash request whose lower-cased handle is in the propagate set ends
\* with the error raised out of the handler and no response of its own, and
\* whenever the error has been raised the sink already holds exactly one
\* critical line of that request.
C4_PropagatedCrash ==
  \A r \in Reqs :
    (req[r].kind = "crash" /\ Lower(req[r].handle) \in PropagateSet)
      => /\ req[r].pc = "done" =>
              /\ req[r].outcome = "raised"
              /\ req[r].status = 0
              /\ req[r].body = NoBody
         /\ req[r].outcome \in {"none", "raised"}
         /\ req[r].outcome = "raised" => LinesBy(r) = <<(<<"CRITICAL", CrashMessage>>)>>
         /\ req[r].pc = "except" => LinesBy(r) = <<>>

C4_Witness ==
  \E r \in Reqs :
    /\ CrashDone(r)
    /\ req[r].handle = <<"F","A","L","S","E">>
    /\ req[r].outcome = "raised"
    /\ Len(sink) > 0 /\ sink[Len(sink)].by # ByRequest(r)

\* C5: the periodic logger is started once, never ends, makes each call only
\* after a full sleep of the configured interval, and again and again a
\* periodic line is written to the sink.
C5_PeriodicLinesForever ==
  /\ [](mainpc = "run" => ppc \in {"sleep", "call"})
  /\ [](ppc = "call" => slept >= settipy.PERIODIC_LOG_INTERVAL)
  /\ []<>(plast = "written")

\* The severity the periodic lines are to have under the current settings.
PeriodicSeverityNamed ==
  IF Lower(settipy.PERIODIC_LOG_LEVEL) \in Keys
    THEN SeverityNamed(settipy.PERIODIC_LOG_LEVEL)
    ELSE "INFO"

\* C6: every line the periodic logger writes has the severity its lower-cased
\* PERIODIC_LOG_LEVEL names, or INFO when it names none, and the configured
\* message; the lookup always yields a logger method and the thread, once
\* started, is sleeping or calling.
C6_PeriodicSeverity ==
  /\ \A j \in 1..Len(sink) :
       sink[j].by = ByPeriodic
         => sink[j].sev = PeriodicSeverityNamed /\ sink[j].msg = settipy.PERIODIC_LOG_MESSAGE
  /\ ppc = "call" => pfn \in Methods /\ LevelName(pfn) = PeriodicSeverityNamed
  /\ mainpc = "run" => ppc \in {"sleep", "call"}

C6_Witness ==
  /\ settipy.PERIODIC_LOG_LEVEL = <<"v","e","r","b","o","s","e">>
  /\ plast = "written"
  /\ \E j \in 1..Len(sink) : sink[j].by = ByPeriodic /\ sink[j].sev = "INFO"

\* Two finished log requests that differ at most in the case of the level.
SameUpToCase(r1, r2) ==
  /\ r1 # r2
  /\ LogDone(r1) /\ LogDone(r2)
  /\ Lower(req[r1].level) = Lower(req[r2].level)
  /\ req[r1].message = req[r2].message
  /\ req[r1].count = req[r2].count

\* C7 as stated: two log requests whose levels are equal after lower-casing,
\* with the same message and count, have the same status, the same body and
\* the same lines.
C7_SameStatusBodyLines ==
  \A r1, r2 \in Reqs :
    SameUpToCase(r1, r2)
      => /\ req[r1].status = req[r2].status
         /\ req[r1].body = req[r2].body
         /\ LinesBy(r1) = LinesBy(r2)

\* C7, amended: such requests have the same status and the same lines; for a
\* valid level the bodies are the same too, and for an invalid level the 400
\* bodies differ at most in the level, which each echoes as it was given.
C7_CaseInsensitive ==
  \A r1, r2 \in Reqs :
    SameUpToCase(r1, r2)
      => /\ req[r1].status = req[r2].status
         /\ LinesBy(r1) = LinesBy(r2)
         /\ Lower(req[r1].level) \in Keys => req[r1].body = req[r2].body
         /\ Lower(req[r1].level) \notin Keys
              => /\ req[r1].body.level = req[r1].level
                 /\ req[r2].body.level = req[r2].level
                 /\ [req[r1].body EXCEPT !.level = <<>>] = [req[r2].body EXCEPT !.level = <<>>]

C7_Witness ==
  /\ \E r1, r2 \in Reqs :
       /\ SameUpToCase(r1, r2)
       /\ req[r1].level = <<"i","n","f","o">> /\ req[r2].level = <<"I","N","F","O">>
       /\ req[r1].count = 2 /\ req[r1].status = 200
       /\ Len(LinesBy(r2)) = 2

\* C8: a log request without a count has the response and the lines of the
\* same request with count 1: for a valid level, exactly one line and a body
\* reporting 1 emitted log.
C8_CountDefaultsToOne ==
  /\ \A r \in Reqs :
       (LogDone(r) /\ ~req[r].hasCount /\ Lower(req[r].level) \in Keys)
         => /\ req[r].body.text = "Emitted" /\ req[r].body.count = 1
            /\ Len(LinesBy(r)) = 1
  /\ \A r1, r2 \in Reqs :
       (/\ LogDone(r1) /\ LogDone(r2)
        /\ ~req[r1].hasCount /\ req[r2].hasCount /\ req[r2].count = 1
        /\ req[r1].level = req[r2].level /\ req[r1].message = req[r2].message)
         => /\ req[r1].status = req[r2].status
            /\ req[r1].body = req[r2].body
            /\ LinesBy(r1) = LinesBy(r2)

\* The number of logger calls request r has made so far.
CallsMade(r) ==
  CASE req[r].kind = "log" -> req[r].i
    [] req[r].kind = "crash" -> IF req[r].pc \in {"logged", "done"} THEN 1 ELSE 0
    [] OTHER -> 0

\* C9: under every interleaving each logger call of a request has put exactly
\* one whole line of that request in the sink: as many lines as calls made,
\* each with the call's own severity and message, in the order of the calls.
C9_OneLinePerCall ==
  \A r \in Reqs :
    /\ Len(LinesBy(r)) = CallsMade(r)
    /\ req[r].kind = "log" /\ Lower(req[r].level) \in Keys
         => LinesBy(r) = Repeated(req[r].i, SeverityNamed(req[r].level), req[r].message)
    /\ req[r].kind = "crash" => \A j \in 1..Len(LinesBy(r)) :
                                   LinesBy(r)[j] = <<"CRITICAL", CrashMessage>>

\* A crash request has raised its error out of the handler.
SomeCrashRaised == \E c \in Reqs : req[c].outcome = "raised"

\* The result request r has when nothing interferes with it.
NormalResult(r) ==
  CASE req[r].kind = "log" /\ Lower(req[r].level) \in Keys ->
         /\ req[r].outcome = "returned" /\ req[r].status = 200
         /\ req[r].body = EmittedBody(req[r].count, req[r].level, req[r].message)
         /\ LinesBy(r) =
              IF SeverityNamed(req[r].level) = "DEBUG" THEN <<>>
              ELSE Repeated(req[r].count, SeverityNamed(req[r].level), req[r].message)
    [] req[r].kind = "log" /\ Lower(req[r].level) \notin Keys ->
         /\ req[r].outcome = "returned" /\ req[r].status = 400
         /\ req[r].body = InvalidBody(req[r].level)
         /\ LinesBy(r) = <<>>
    [] req[r].kind = "crash" /\ Lower(req[r].handle) \notin PropagateSet ->
         /\ req[r].outcome = "returned" /\ req[r].status = 500
         /\ req[r].body = CaughtBody
         /\ LinesBy(r) = <<(<<"CRITICAL", CrashMessage>>)>>
    [] req[r].kind = "crash" /\ Lower(req[r].handle) \in PropagateSet ->
         /\ req[r].outcome = "raised" /\ req[r].status = 0
         /\ LinesBy(r) = <<(<<"CRITICAL", CrashMessage>>)>>
    [] OTHER -> FALSE

\* C10: once a crash request has raised its error, the server and the
\* periodic thread are still running, every other request that is or comes
\* under way finishes, every finished request has its normal result, and
\* the periodic logger goes on completing its call after each sleep.
C10_CrashConfined ==
  /\ [](SomeCrashRaised => mainpc = "run" /\ ppc \in {"sleep", "call"})
  /\ [](SomeCrashRaised => \A r \in Reqs : req[r].pc = "done" => NormalResult(r))
  /\ SomeCrashRaised ~> (\A r \in Reqs : req[r].pc \in {"idle", "done"})
  /\ SomeCrashRaised ~> (ppc = "call")
  /\ SomeCrashRaised ~> (ppc = "sleep" /\ plast # "none")

C10_Witness ==
  /\ req[1].outcome = "raised"
  /\ req[2].kind = "log" /\ req[2].status = 200 /\ LinesBy(2) # <<>>
  /\ plast = "written"
  /\ Len(sink) > 1
  /\ sink[Len(sink)].by = ByPeriodic
  /\ sink[Len(sink) - 1].by = ByRequest(2)

====
